---- MODULE Spec2Model ----
(***************************************************************************)
(* texar/utils/rnn.py: dynamic_rnn and _dynamic_rnn_loop.                  *)
(*                                                                         *)
(* One call of dynamic_rnn is modelled as a sequential process.  The       *)
(* variables are the caller's arguments, the local variables of the two    *)
(* functions, the position in the code (pc) and three instrumentation      *)
(* variables (the log of cell invocations, the indices at which the step   *)
(* history was read, the number of zero_state calls).                      *)
(*                                                                         *)
(* Tensors keep their batch and time axes; the feature axis has width 1.   *)
(*   a [d0, d1] tensor is [d0 |-> , d1 |-> , v |-> <<row_1, ..., row_d0>>] *)
(*   a [batch] tensor is a sequence of integers                            *)
(*   a recurrent state is [tuple |-> BOOLEAN, c |-> <<tensor, ...>>]; a    *)
(*   single tensor has tuple = FALSE and one component.                    *)
(* Python indices are 0-based, sequences here are 1-based.                 *)
(***************************************************************************)
EXTENDS Integers, Sequences, FiniteSets, TLC

\* Largest batch size enumerated.
MaxBatch == 2
\* Largest time extent enumerated (0 .. MaxTime).
MaxTime == 3
\* Largest arity of a tuple state enumerated (1 .. MaxArity).
MaxArity == 3
\* Input tensors enumerated per shape.
InputSeeds == {0, 1}

VARIABLES
    cell,               \* argument: the cell object
    inputs_arg,         \* argument: inputs, in the caller's axis convention
    sequence_length_arg,\* argument: sequence_length (or None)
    initial_state_arg,  \* argument: initial_state (or None)
    time_major,         \* argument: time_major
    pc,                 \* position in the code
    error,              \* the exception raised ("" while none)
    error_at,           \* pc at which it was raised
    inputs,             \* dynamic_rnn: inputs after the transposition
    time_steps,         \* inputs.shape[0]
    batch_size,         \* inputs.shape[1]
    sequence_length,    \* the materialised sequence-length vector
    initial_state,      \* _dynamic_rnn_loop's parameter initial_state
    state,              \* _dynamic_rnn_loop: the current state
    is_tuple,           \* isinstance(state, tuple)
    i,                  \* loop index of the time loop
    all_outputs,        \* list of per-step outputs
    all_state,          \* list (or pair of lists) of per-step states
    final_outputs,      \* stacked, then masked, outputs [time, batch]
    final_state,        \* lists of selected rows, then the stacked state
    batch_idx,          \* loop index of the final-state selection
    outputs,            \* what dynamic_rnn returns as outputs
    calls,              \* instrumentation: log of cell invocations
    lookups,            \* instrumentation: reads all_state[..][idx][batch_idx]
    zero_state_calls    \* instrumentation: number of cell.zero_state calls

vars == << cell, inputs_arg, sequence_length_arg, initial_state_arg, time_major,
           pc, error, error_at, inputs, time_steps, batch_size, sequence_length,
           initial_state, state, is_tuple, i, all_outputs, all_state,
           final_outputs, final_state, batch_idx, outputs, calls, lookups,
           zero_state_calls >>

----------------------------------------------------------------------------
(* Tensor primitives of the host runtime.                                  *)

\* tensor.permute(1, 0, 2): swap the two leading axes.
Permute(t) ==
    [d0 |-> t.d1, d1 |-> t.d0,
     v  |-> [r \in 1..t.d1 |-> [c \in 1..t.d0 |-> t.v[c][r]]]]

\* Python list / tensor indexing with an int: negative indices count from the end.
PyIndexOk(list, idx) == idx >= -Len(list) /\ idx < Len(list)

PyIndex(list, idx) ==
    IF idx >= 0 THEN list[idx + 1] ELSE list[Len(list) + idx + 1]

\* torch.stack(list, dim=0) raises RuntimeError on an empty list.
StackRaises(list) == Len(list) = 0

\* `fmt % arg` with arg a tuple (torch.Size is a tuple subclass): every element
\* of the tuple is one argument, and the count must equal the number of
\* conversion specifiers of fmt, else TypeError.
PercentFormatRaises(specifiers, tuple_arg) == Len(tuple_arg) # specifiers

----------------------------------------------------------------------------
(* Collaborators: the cell and the masking utility.                        *)

\* cell(inputs[i], state) for a conforming cell: one vectorised step over the
\* whole batch.  Component k of the new state of element b records the old
\* value and the input, so the states of different steps differ.
CellStep(x, st) ==
    LET new_c == [k \in 1..Len(st.c) |->
                    [b \in 1..Len(x) |-> 2 * st.c[k][b] + x[b] + k]]
    IN  [output |-> new_c[1],
         state  |-> [tuple |-> st.tuple, c |-> new_c]]

\* cell.zero_state(batch_size=batch_size)
ZeroState(kind, batch) ==
    [tuple |-> kind.tuple,
     c     |-> [k \in 1..kind.arity |-> [b \in 1..batch |-> 0]]]

\* mask_sequences(final_outputs, sequence_length, time_major=True): positions
\* at or beyond an element's length are zeroed, the shape is unchanged.
MaskSequences(t, lengths) ==
    [t EXCEPT !.v = [r \in 1..t.d0 |->
                        [b \in 1..t.d1 |->
                            IF r - 1 < lengths[b] THEN t.v[r][b] ELSE 0]]]

----------------------------------------------------------------------------
(* The call frame: the variables as one record, so that each step of the   *)
(* code is a function from frame to frame and a whole call can also be     *)
(* evaluated as a function of its arguments (RunToEnd).                    *)

Frame ==
    [cell |-> cell, inputs_arg |-> inputs_arg,
     sequence_length_arg |-> sequence_length_arg,
     initial_state_arg |-> initial_state_arg, time_major |-> time_major,
     pc |-> pc, error |-> error, error_at |-> error_at, inputs |-> inputs,
     time_steps |-> time_steps, batch_size |-> batch_size,
     sequence_length |-> sequence_length, initial_state |-> initial_state,
     state |-> state, is_tuple |-> is_tuple, i |-> i,
     all_outputs |-> all_outputs, all_state |-> all_state,
     final_outputs |-> final_outputs, final_state |-> final_state,
     batch_idx |-> batch_idx, outputs |-> outputs, calls |-> calls,
     lookups |-> lookups, zero_state_calls |-> zero_state_calls]

\* The variables hold the frame f (in the initial state).
IsFrame(f) ==
    /\ cell = f.cell
    /\ inputs_arg = f.inputs_arg
    /\ sequence_length_arg = f.sequence_length_arg
    /\ initial_state_arg = f.initial_state_arg
    /\ time_major = f.time_major
    /\ pc = f.pc
    /\ error = f.error
    /\ error_at = f.error_at
    /\ inputs = f.inputs
    /\ time_steps = f.time_steps
    /\ batch_size = f.batch_size
    /\ sequence_length = f.sequence_length
    /\ initial_state = f.initial_state
    /\ state = f.state
    /\ is_tuple = f.is_tuple
    /\ i = f.i
    /\ all_outputs = f.all_outputs
    /\ all_state = f.all_state
    /\ final_outputs = f.final_outputs
    /\ final_state = f.final_state
    /\ batch_idx = f.batch_idx
    /\ outputs = f.outputs
    /\ calls = f.calls
    /\ lookups = f.lookups
    /\ zero_state_calls = f.zero_state_calls

\* The variables hold the frame f in the next state.
Assign(f) ==
    /\ cell' = f.cell
    /\ inputs_arg' = f.inputs_arg
    /\ sequence_length_arg' = f.sequence_length_arg
    /\ initial_state_arg' = f.initial_state_arg
    /\ time_major' = f.time_major
    /\ pc' = f.pc
    /\ error' = f.error
    /\ error_at' = f.error_at
    /\ inputs' = f.inputs
    /\ time_steps' = f.time_steps
    /\ batch_size' = f.batch_size
    /\ sequence_length' = f.sequence_length
    /\ initial_state' = f.initial_state
    /\ state' = f.state
    /\ is_tuple' = f.is_tuple
    /\ i' = f.i
    /\ all_outputs' = f.all_outputs
    /\ all_state' = f.all_state
    /\ final_outputs' = f.final_outputs
    /\ final_state' = f.final_state
    /\ batch_idx' = f.batch_idx
    /\ outputs' = f.outputs
    /\ calls' = f.calls
    /\ lookups' = f.lookups
    /\ zero_state_calls' = f.zero_state_calls

NoTensor == [d0 |-> 0, d1 |-> 0, v |-> << >>]
NoState  == [tuple |-> FALSE, c |-> << >>]

\* The frame on entry to dynamic_rnn.
Entry(c, inp, sl, st, tm) ==
    [cell |-> c, inputs_arg |-> inp, sequence_length_arg |-> sl,
     initial_state_arg |-> st, time_major |-> tm,
     pc |-> "transpose", error |-> "", error_at |-> "", inputs |-> NoTensor,
     time_steps |-> 0, batch_size |-> 0, sequence_length |-> << >>,
     initial_state |-> NoState, state |-> NoState, is_tuple |-> FALSE, i |-> 0,
     all_outputs |-> << >>, all_state |-> << >>,
     final_outputs |-> NoTensor, final_state |-> << >>,
     batch_idx |-> 0, outputs |-> NoTensor, calls |-> << >>,
     lookups |-> {}, zero_state_calls |-> 0]

\* An exception leaves the call: nothing is returned.
Raise(f, exc) == [f EXCEPT !.pc = "error", !.error = exc, !.error_at = f.pc]

----------------------------------------------------------------------------
(* dynamic_rnn, lines 93-119.                                              *)

\* Lines 93-98.  inputs = None has neither permute nor shape.
TransposeStep(f) ==
    IF ~f.inputs_arg.given
    THEN Raise(f, "AttributeError")
    ELSE LET t == IF ~f.time_major THEN Permute(f.inputs_arg.t)
                  ELSE f.inputs_arg.t
         IN  [f EXCEPT !.inputs = t, !.time_steps = t.d0,
                       !.batch_size = t.d1, !.pc = "check_sequence_length"]

\* A default one step short of the time extent.
DefaultSequenceLengthShort(steps, batch) == [b \in 1..batch |-> steps - 1]

\* Line 114: torch.tensor([time_steps]*batch_size)
DefaultSequenceLength(steps, batch) == [b \in 1..batch |-> steps]

\* Lines 105-108: the exception of the rank check.  The message is built
\* first, by "...%s" % sequence_length.shape, with one conversion specifier.
RankError(shape) ==
    IF PercentFormatRaises(1, shape) THEN "TypeError" ELSE "ValueError"

\* Lines 109-112: the exception of the length check.  Both messages are built
\* first: "...%s" % batch_size (an int) and "...%s" % sequence_length.shape.
LengthError(shape) ==
    IF PercentFormatRaises(1, shape) THEN "TypeError" ELSE "ValueError"

\* Lines 100-114.
CheckSequenceLengthStep(f) ==
    LET sl == f.sequence_length_arg IN
    IF sl.given
    THEN IF Len(sl.shape) # 1
         THEN Raise(f, RankError(sl.shape))
         ELSE IF sl.shape # << f.batch_size >>
              THEN Raise(f, LengthError(sl.shape))
              ELSE [f EXCEPT !.sequence_length = sl.data,
                             !.pc = "initial_state"]
    ELSE [f EXCEPT !.sequence_length =
                       DefaultSequenceLength(f.time_steps, f.batch_size),
                   !.pc = "initial_state"]

\* Lines 116-124 and 141-150: the initial state, then entry to the loop.
\* An object that is no cell has no zero_state attribute.
InitialStateStep(f) ==
    IF f.initial_state_arg.given
    THEN [f EXCEPT !.state = f.initial_state_arg.s,
                   !.initial_state = f.initial_state_arg.s,
                   !.is_tuple = f.initial_state_arg.s.tuple,
                   !.all_state = IF f.initial_state_arg.s.tuple
                                 THEN << << >>, << >> >> ELSE << << >> >>,
                   !.pc = "loop"]
    ELSE IF ~f.cell.conforming
         THEN Raise(f, "AttributeError")
         ELSE LET z == ZeroState(f.cell.kind, f.batch_size) IN
              [f EXCEPT !.state = z, !.initial_state = z,
                        !.is_tuple = z.tuple,
                        !.all_state = IF z.tuple
                                      THEN << << >>, << >> >> ELSE << << >> >>,
                        !.zero_state_calls = @ + 1,
                        !.pc = "loop"]

----------------------------------------------------------------------------
(* _dynamic_rnn_loop, lines 152-192.                                       *)

\* The cell is handed the initial state at every step.
CellInputStateInitial(f) == f.initial_state

\* Line 153: the state handed to the cell is the loop variable `state`.
CellInputState(f) == f.state

\* Lines 152-159: one iteration of the time loop.  An object that is no cell
\* is not callable.  For a tuple state the code records state[0] and state[1].
LoopIterationStep(f) ==
    IF ~f.cell.conforming
    THEN Raise(f, "TypeError")
    ELSE LET x  == f.inputs.v[f.i + 1]
             st == CellInputState(f)
             r  == CellStep(x, st)
             f1 == [f EXCEPT !.calls = Append(@, [index |-> f.i, x |-> x,
                                                  state_in |-> st,
                                                  output |-> r.output,
                                                  state_out |-> r.state]),
                             !.state = r.state,
                             !.all_outputs = Append(@, r.output)]
         IN  IF f.is_tuple
             THEN LET f2 == [f1 EXCEPT !.all_state[1] = Append(@, r.state.c[1])]
                  IN  IF Len(r.state.c) < 2
                      THEN Raise(f2, "IndexError")
                      ELSE [f2 EXCEPT !.all_state[2] = Append(@, r.state.c[2]),
                                      !.i = @ + 1]
             ELSE [f1 EXCEPT !.all_state[1] = Append(@, r.state.c[1]),
                             !.i = @ + 1]

\* Line 163: final_outputs = torch.stack(all_outputs, dim=0)
StackOutputsStep(f) ==
    IF StackRaises(f.all_outputs)
    THEN Raise(f, "RuntimeError")
    ELSE [f EXCEPT !.final_outputs = [d0 |-> Len(f.all_outputs),
                                      d1 |-> f.batch_size,
                                      v  |-> f.all_outputs],
                   !.pc = "mask"]

\* Lines 164-170.
MaskOutputsStep(f) ==
    [f EXCEPT !.final_outputs = MaskSequences(@, f.sequence_length),
              !.final_state = IF f.is_tuple THEN << << >>, << >> >>
                              ELSE << << >> >>,
              !.batch_idx = 0,
              !.pc = "select"]

\* The test of line 173 with >= for >, and inverted.
UsesHistoryFromZero(time_idx) == time_idx >= 0

UsesHistoryInverted(time_idx) == time_idx <= 0

\* Line 173: whether the element's state is read from the step history.
UsesHistory(time_idx) == time_idx > 0

\* The naive selection: the state after the last computed step.
HistoryIndexLast(time_idx) == -1

\* Lines 175-178: the index into the step history.
HistoryIndex(time_idx) == time_idx - 1

\* Lines 172-184: one iteration of the final-state selection.
SelectFinalStateStep(f) ==
    LET time_idx == f.sequence_length[f.batch_idx + 1]
        n        == IF f.is_tuple THEN 2 ELSE 1
    IN  IF UsesHistory(time_idx)
        THEN LET idx == HistoryIndex(time_idx)
                 f1  == [f EXCEPT !.lookups = @ \cup {<< f.batch_idx, idx >>}]
             IN  IF \E k \in 1..n : ~PyIndexOk(f.all_state[k], idx)
                 THEN Raise(f1, "IndexError")
                 ELSE [f1 EXCEPT
                         !.final_state =
                             [k \in 1..n |->
                                Append(f.final_state[k],
                                       PyIndex(PyIndex(f.all_state[k], idx),
                                               f.batch_idx))],
                         !.batch_idx = @ + 1]
        ELSE IF Len(f.initial_state.c) < n
             THEN Raise(f, "IndexError")
             ELSE [f EXCEPT
                     !.final_state =
                         [k \in 1..n |->
                            Append(f.final_state[k],
                                   PyIndex(f.initial_state.c[k], f.batch_idx))],
                     !.batch_idx = @ + 1]

\* Lines 186-192: stack the selected rows along the batch axis.
StackFinalStateStep(f) ==
    IF \E k \in 1..Len(f.final_state) : StackRaises(f.final_state[k])
    THEN Raise(f, "RuntimeError")
    ELSE [f EXCEPT !.final_state = [tuple |-> f.is_tuple, c |-> f.final_state],
                   !.pc = "return"]

\* The outputs left time-major.
ReturnedOutputsTimeMajor(t, tm) == t

\* Lines 129-131: outputs in the caller's axis convention.
ReturnedOutputs(t, tm) == IF ~tm THEN Permute(t) ELSE t

\* Lines 126-133.
ReturnStep(f) ==
    [f EXCEPT !.outputs = ReturnedOutputs(f.final_outputs, f.time_major),
              !.pc = "done"]

\* The step of the code at the frame's position.
StepOf(f) ==
    CASE f.pc = "transpose"             -> TransposeStep(f)
      [] f.pc = "check_sequence_length" -> CheckSequenceLengthStep(f)
      [] f.pc = "initial_state"         -> InitialStateStep(f)
      [] f.pc = "loop" /\ f.i < f.time_steps -> LoopIterationStep(f)
      [] f.pc = "loop" /\ f.i >= f.time_steps -> StackOutputsStep(f)
      [] f.pc = "mask"                  -> MaskOutputsStep(f)
      [] f.pc = "select" /\ f.batch_idx < Len(f.sequence_length)
                                        -> SelectFinalStateStep(f)
      [] f.pc = "select" /\ f.batch_idx >= Len(f.sequence_length)
                                        -> StackFinalStateStep(f)
      [] f.pc = "return"                -> ReturnStep(f)
      [] OTHER                          -> f

\* A whole call, from a frame to the frame at its end.
RECURSIVE RunToEnd(_)
RunToEnd(f) == IF f.pc \in {"done", "error"} THEN f ELSE RunToEnd(StepOf(f))

\* dynamic_rnn as a function of its arguments: what the caller observes.
dynamic_rnn(c, inp, sl, st, tm) ==
    LET e == RunToEnd(Entry(c, inp, sl, st, tm))
    IN  [returned |-> e.pc = "done", error |-> e.error,
         outputs |-> e.outputs, final_state |-> e.final_state]

----------------------------------------------------------------------------
(* The arguments enumerated.                                               *)

None == [given |-> FALSE]

\* A state is a single tensor or a tuple of 1 .. MaxArity tensors.
StateKinds ==
    {[tuple |-> FALSE, arity |-> 1]} \cup
    {[tuple |-> TRUE, arity |-> n] : n \in 1..MaxArity}

\* A cell, or an object that is no cell (not callable, no zero_state).
Cells == [conforming : BOOLEAN, kind : StateKinds]

\* A time-major input tensor [steps, batch].
InputTensor(steps, batch, seed) ==
    [d0 |-> steps, d1 |-> batch,
     v  |-> [t \in 1..steps |-> [b \in 1..batch |-> (seed + t + b) % 2]]]

\* A supplied initial state of the cell's structure, nonzero everywhere.
SuppliedState(kind, batch) ==
    [tuple |-> kind.tuple,
     c     |-> [k \in 1..kind.arity |-> [b \in 1..batch |-> k + b]]]

\* sequence_length arguments for a batch: every vector of the right length
\* with entries 0 .. steps + 1, and tensors of a wrong rank or length.
SequenceLengths(steps, batch) ==
    {[given |-> TRUE, shape |-> << batch >>, data |-> d] :
        d \in [1..batch -> 0..(steps + 1)]}
    \cup {[given |-> TRUE, shape |-> sh, data |-> << >>] :
            sh \in {<< >>, << batch, 1 >>, << 1, batch >>,
                    << batch + 1 >>, << batch - 1 >>}}
    \cup {None}

Init ==
    \E c \in Cells, tm \in BOOLEAN, gave_state \in BOOLEAN :
      \/ \E batch \in 1..MaxBatch, steps \in 0..MaxTime, seed \in InputSeeds :
           \E sl \in SequenceLengths(steps, batch) :
              LET tmaj == InputTensor(steps, batch, seed)
                  inp  == [given |-> TRUE,
                           t |-> IF tm THEN tmaj ELSE Permute(tmaj)]
                  st   == IF gave_state
                          THEN [given |-> TRUE,
                                s |-> SuppliedState(c.kind, batch)]
                          ELSE None
              IN  IsFrame(Entry(c, inp, sl, st, tm))
      \/ IsFrame(Entry(c, None, None, None, tm))

----------------------------------------------------------------------------
(* The actions: one per step of the code.                                  *)

Transpose ==
    pc = "transpose" /\ Assign(TransposeStep(Frame))

CheckSequenceLength ==
    pc = "check_sequence_length" /\ Assign(CheckSequenceLengthStep(Frame))

InitialState ==
    pc = "initial_state" /\ Assign(InitialStateStep(Frame))

LoopIteration ==
    pc = "loop" /\ i < time_steps /\ Assign(LoopIterationStep(Frame))

StackOutputs ==
    pc = "loop" /\ i >= time_steps /\ Assign(StackOutputsStep(Frame))

MaskOutputs ==
    pc = "mask" /\ Assign(MaskOutputsStep(Frame))

SelectFinalState ==
    pc = "select" /\ batch_idx < Len(sequence_length)
    /\ Assign(SelectFinalStateStep(Frame))

StackFinalState ==
    pc = "select" /\ batch_idx >= Len(sequence_length)
    /\ Assign(StackFinalStateStep(Frame))

Return ==
    pc = "return" /\ Assign(ReturnStep(Frame))

Next ==
    \/ Transpose
    \/ CheckSequenceLength
    \/ InitialState
    \/ LoopIteration
    \/ StackOutputs
    \/ MaskOutputs
    \/ SelectFinalState
    \/ StackFinalState
    \/ Return

Spec == Init /\ [][Next]_vars

----------------------------------------------------------------------------
(* What the caller sees, read from the arguments and the results.          *)

\* Batch size and time extent of the inputs argument, in its own convention.
ArgBatch == IF time_major THEN inputs_arg.t.d1 ELSE inputs_arg.t.d0
ArgTime  == IF time_major THEN inputs_arg.t.d0 ELSE inputs_arg.t.d1

\* The input of element b (1-based) at time index t (0-based).
ArgAt(b, t) ==
    IF time_major THEN inputs_arg.t.v[t + 1][b] ELSE inputs_arg.t.v[b][t + 1]

\* The returned output of element b (1-based) at time index t (0-based).
OutAt(b, t) ==
    IF time_major THEN outputs.v[t + 1][b] ELSE outputs.v[b][t + 1]

\* The state the unrolling starts from.
InitialStateOf ==
    IF initial_state_arg.given THEN initial_state_arg.s
    ELSE ZeroState(cell.kind, ArgBatch)

Returned == pc = "done"

BeforeLoop == {"transpose", "check_sequence_length", "initial_state"}

\* The time loop has run to its end (it was not left by an exception).
LoopEnded ==
    /\ pc \notin BeforeLoop
    /\ ~(pc = "error" /\ error_at \in BeforeLoop)
    /\ i = time_steps

----------------------------------------------------------------------------
(* C1 *)

\* C1: whenever dynamic_rnn returns, for every batch element b with
\* 0 < L[b] <= time_extent every component of the returned final state of b is
\* that component of element b of the state the cell returned at step index
\* L[b]-1, whatever the other lengths are; the step history is read for b at
\* index L[b]-1 only, which is the last index exactly when L[b] = time_extent,
\* and for L[b] < time_extent the result differs from the state after the last
\* step (CellStep changes every component at every step).
C1_FinalStateIsStateAfterLastValidStep ==
    Returned =>
      \A b \in 1..batch_size :
        LET L == sequence_length[b] IN
        (0 < L /\ L <= time_steps) =>
          /\ \A k \in 1..Len(final_state.c) :
               final_state.c[k][b] = calls[L].state_out.c[k][b]
          /\ \A r \in lookups : r[1] = b - 1 => r[2] = L - 1
          /\ << b - 1, time_steps - 1 >> \in lookups <=> L = time_steps
          /\ L < time_steps =>
               \A k \in 1..Len(final_state.c) :
                 final_state.c[k][b] # calls[time_steps].state_out.c[k][b]

\* The scenario of the specification: batch 2, time extent 3, lengths [2, 3].
C1_Witness ==
    /\ Returned
    /\ batch_size = 2 /\ time_steps = 3
    /\ sequence_length = << 2, 3 >>
    /\ final_state.c[1][1] = calls[2].state_out.c[1][1]
    /\ final_state.c[1][2] = calls[3].state_out.c[1][2]

----------------------------------------------------------------------------
(* C2 *)

\* C2: for every batch element b whose sequence length is 0 the step history
\* is never read for b; and when dynamic_rnn returns, every component of the
\* final state of b is that component of b's initial state (the supplied one,
\* or the zero state) and every output of b along the time axis is zero.
C2_ZeroLengthKeepsInitialState ==
    (pc \notin BeforeLoop /\ ~(pc = "error" /\ error_at \in BeforeLoop)) =>
      \A b \in 1..batch_size :
        sequence_length[b] = 0 =>
          /\ \A r \in lookups : r[1] # b - 1
          /\ Returned =>
               /\ \A k \in 1..Len(final_state.c) :
                    final_state.c[k][b] = InitialStateOf.c[k][b]
               /\ \A t \in 0..(time_steps - 1) : OutAt(b, t) = 0

C2_Witness ==
    /\ Returned
    /\ batch_size = 2 /\ time_steps >= 2
    /\ sequence_length[1] = 0 /\ sequence_length[2] > 0
    /\ initial_state_arg.given
    /\ final_state.c[1][1] = initial_state_arg.s.c[1][1]
    /\ OutAt(1, 0) = 0 /\ OutAt(2, 0) # 0

----------------------------------------------------------------------------
(* C3 *)

\* C3: whenever dynamic_rnn returns, the outputs have batch_size entries of
\* time_extent entries each (time_extent of batch_size when time-major),
\* whatever the lengths are, and the entry of element b at time t is the
\* cell's output for b at step t when t < L[b] and zero when t >= L[b].
C3_OutputsShapeAndMask ==
    Returned =>
      /\ outputs.d0 = (IF time_major THEN ArgTime ELSE ArgBatch)
      /\ outputs.d1 = (IF time_major THEN ArgBatch ELSE ArgTime)
      /\ Len(outputs.v) = outputs.d0
      /\ \A r \in 1..outputs.d0 : Len(outputs.v[r]) = outputs.d1
      /\ \A b \in 1..ArgBatch : \A t \in 0..(ArgTime - 1) :
           OutAt(b, t) = IF t < sequence_length[b]
                         THEN calls[t + 1].output[b] ELSE 0

C3_Witness ==
    /\ Returned
    /\ ~time_major
    /\ batch_size = 2 /\ time_steps = 3
    /\ sequence_length = << 2, 3 >>
    /\ outputs.d0 = 2 /\ outputs.d1 = 3
    /\ OutAt(1, 1) # 0 /\ OutAt(1, 2) = 0 /\ OutAt(2, 2) # 0

----------------------------------------------------------------------------
(* C4 *)

\* The vector whose every entry is the full time extent.
FullLengthVector ==
    [given |-> TRUE, shape |-> << ArgBatch >>,
     data |-> [b \in 1..ArgBatch |-> ArgTime]]

\* C4: a call with sequence_length omitted ends as the call on the same cell,
\* inputs and initial state with the full-time-extent vector ends: both
\* return or both raise the same exception, and when they return the outputs
\* and the final states are equal.
C4_OmittedEqualsFullLengths ==
    (pc \in {"done", "error"} /\ inputs_arg.given
        /\ ~sequence_length_arg.given) =>
      LET full == dynamic_rnn(cell, inputs_arg, FullLengthVector,
                              initial_state_arg, time_major)
      IN  /\ full.returned = Returned
          /\ full.error = error
          /\ Returned => /\ full.outputs = outputs
                         /\ full.final_state = final_state

C4_Witness ==
    /\ Returned
    /\ ~sequence_length_arg.given
    /\ batch_size = 2 /\ time_steps = 3
    /\ sequence_length = << 3, 3 >>
    /\ final_state.c[1] = calls[3].state_out.c[1]

----------------------------------------------------------------------------
(* C5 *)

\* sequence_length was supplied with a rank other than 1 or a length other
\* than the batch size.
SequenceLengthMalformed ==
    /\ inputs_arg.given
    /\ sequence_length_arg.given
    /\ \/ Len(sequence_length_arg.shape) # 1
       \/ sequence_length_arg.shape # << ArgBatch >>

\* C5: with a sequence_length of wrong rank or wrong length (and a cell) the call does not
\* get past the check of sequence_length: it raises ValueError there, the cell
\* has not been invoked and no outputs or final state exist.
C5_MalformedLengthsRaiseValueError ==
    (cell.conforming /\ SequenceLengthMalformed
        /\ pc \notin {"transpose", "check_sequence_length"}) =>
      /\ pc = "error"
      /\ error_at = "check_sequence_length"
      /\ error = "ValueError"
      /\ Len(calls) = 0
      /\ outputs = NoTensor

----------------------------------------------------------------------------
(* C6 *)

InputsAbsentOrEmpty == ~inputs_arg.given \/ ArgTime = 0

\* C6: with inputs absent or of zero time extent (and a conforming cell) the
\* call never returns, and the exception it raises is a ValueError raised
\* before the time loop, the stacking and the final-state selection.
C6_EmptyInputsRaiseValueError ==
    (cell.conforming /\ InputsAbsentOrEmpty) =>
      /\ pc # "done"
      /\ pc = "error" => /\ error = "ValueError"
                         /\ error_at \in BeforeLoop

----------------------------------------------------------------------------
(* C7 *)

\* C7: with an object that is no cell (inputs present, sequence_length well
\* formed) the exception raised is a TypeError raised on entry: zero_state
\* was not called, the cell was not invoked, no other argument was processed.
C7_NonCellRaisesTypeError ==
    (~cell.conforming /\ inputs_arg.given /\ ~SequenceLengthMalformed
        /\ pc = "error") =>
      /\ error = "TypeError"
      /\ error_at = "transpose"
      /\ zero_state_calls = 0
      /\ Len(calls) = 0

----------------------------------------------------------------------------
(* C8 *)

\* The number of state components the step history holds for step j (1-based).
RecordedArity(j) ==
    Cardinality({k \in 1..Len(all_state) : Len(all_state[k]) >= j})

\* C8: every per-step state recorded in the step history has the arity of
\* the initial state; and when dynamic_rnn returns, the final state is a
\* tuple exactly when the initial state is, has its arity, and every
\* component of every element is selected by the rule of C1 and C2.
C8_FinalStateKeepsStructure ==
    /\ \A j \in 1..i : RecordedArity(j) = Len(InitialStateOf.c)
    /\ Returned =>
         /\ final_state.tuple = InitialStateOf.tuple
         /\ Len(final_state.c) = Len(InitialStateOf.c)
         /\ \A k \in 1..Len(InitialStateOf.c) : \A b \in 1..batch_size :
              final_state.c[k][b] =
                 IF sequence_length[b] > 0
                 THEN calls[sequence_length[b]].state_out.c[k][b]
                 ELSE InitialStateOf.c[k][b]

----------------------------------------------------------------------------
(* C9 *)

\* C9: the cell is never invoked more than time_extent times; invocation n
\* (0-based) is for time index n, on the full-batch slice of the inputs at
\* that index, with the initial state when n = 0 and otherwise with the
\* state invocation n-1 returned; the histories hold one entry per
\* invocation, entry n being what invocation n returned; and once the loop
\* has ended there were exactly time_extent invocations, whatever the
\* sequence lengths are.
C9_OneInvocationPerTimeIndex ==
    /\ Len(calls) <= time_steps
    /\ \A n \in 1..Len(calls) :
         /\ calls[n].index = n - 1
         /\ Len(calls[n].x) = ArgBatch
         /\ \A b \in 1..ArgBatch : calls[n].x[b] = ArgAt(b, n - 1)
         /\ calls[n].state_in = IF n = 1 THEN InitialStateOf
                                ELSE calls[n - 1].state_out
         /\ calls[n] = [index |-> n - 1, x |-> calls[n].x,
                        state_in |-> calls[n].state_in,
                        output |-> CellStep(calls[n].x, calls[n].state_in).output,
                        state_out |-> CellStep(calls[n].x, calls[n].state_in).state]
         /\ all_outputs[n] = calls[n].output
    /\ LoopEnded =>
         /\ Len(calls) = time_steps
         /\ Len(all_outputs) = time_steps
         /\ \A k \in 1..Len(all_state) :
              /\ Len(all_state[k]) = time_steps
              /\ \A n \in 1..time_steps :
                   all_state[k][n] = calls[n].state_out.c[k]

\* Three invocations although the lengths are 0 and 1.
C9_Witness ==
    /\ Returned
    /\ LoopEnded
    /\ batch_size = 2 /\ time_steps = 3
    /\ sequence_length = << 0, 1 >>
    /\ Len(calls) = 3
    /\ calls[3].state_in = calls[2].state_out

----------------------------------------------------------------------------
(* C10 *)

\* sequence_length is a vector of length batch_size.
SequenceLengthWellShaped ==
    /\ inputs_arg.given
    /\ sequence_length_arg.given
    /\ sequence_length_arg.shape = << ArgBatch >>

\* ... and some entry exceeds the time extent.
SequenceLengthTooLong ==
    /\ SequenceLengthWellShaped
    /\ \E b \in 1..ArgBatch : sequence_length_arg.data[b] > ArgTime

\* After the time loop has ended, the call can only end in the IndexError of
\* the final-state selection, raised on reading the step history at an index
\* L-1 >= time_extent, with time_extent invocations of the cell made.
EndsInHistoryIndexError ==
    /\ pc # "done"
    /\ (LoopEnded /\ pc = "error") =>
         /\ error = "IndexError"
         /\ error_at = "select"
         /\ Len(calls) = time_steps
         /\ \E r \in lookups :
              /\ r[2] >= time_steps
              /\ r[2] = sequence_length[r[1] + 1] - 1

====
